---- MODULE Spec2Model ----
(***************************************************************************)
(* Model of gunz_utils.enums: BaseStrEnum, OptionalBaseStrEnum and         *)
(* BaseIntEnum (src/src/gunz_utils/enums.py).                              *)
(*                                                                         *)
(* A Python string is a sequence of one-character strings, so that         *)
(* str.lower() and str.replace() are computed character by character.      *)
(* A Python value is a record [t, s, i]: t is its type tag ("str", "int",  *)
(* "none", "member"), s the characters of a str, i the number of an int   *)
(* or the position of an enum member in the type's member list.            *)
(***************************************************************************)
EXTENDS Integers, Sequences, FiniteSets, TLC

(***************************************************************************)
(* Python values                                                           *)
(***************************************************************************)
PyStr(s) == [t |-> "str", s |-> s, i |-> 0]

PyInt(n) == [t |-> "int", s |-> <<>>, i |-> n]

PyNone == [t |-> "none", s |-> <<>>, i |-> 0]

PyMember(k) == [t |-> "member", s |-> <<>>, i |-> k]

\* isinstance(value, str)
IsStr(v) == v.t = "str"

\* isinstance(value, cls), for the one enum type of the model
IsMember(v) == v.t = "member"

(***************************************************************************)
(* str.lower() and str.replace(old, new) for one-character old and new     *)
(***************************************************************************)
UpperCase == {"A", "B", "C", "E", "M", "N", "O", "X"}

LowerChar(c) ==
    CASE c = "A" -> "a"
      [] c = "B" -> "b"
      [] c = "C" -> "c"
      [] c = "E" -> "e"
      [] c = "M" -> "m"
      [] c = "N" -> "n"
      [] c = "O" -> "o"
      [] c = "X" -> "x"
      [] OTHER -> c

UpperChar(c) ==
    CASE c = "a" -> "A"
      [] c = "b" -> "B"
      [] c = "c" -> "C"
      [] c = "e" -> "E"
      [] c = "m" -> "M"
      [] c = "n" -> "N"
      [] c = "o" -> "O"
      [] c = "x" -> "X"
      [] OTHER -> c

\* lower() that leaves every character as it is
lower_unchanged(s) == s

lower(s) == [k \in 1..Len(s) |-> LowerChar(s[k])]

replace(s, old, new) == [k \in 1..Len(s) |-> IF s[k] = old THEN new ELSE s[k]]

\* normalization that lowercases and leaves the separators as they are
normalize_case_only(s) == lower(s)

\* value.lower().replace("-", "_").replace(" ", "_")
normalize(s) == replace(replace(lower(s), "-", "_"), " ", "_")

(***************************************************************************)
(* Outcome of a call: a returned value or a raised exception.  msg names   *)
(* the message of the exception and about the value the message quotes.    *)
(***************************************************************************)
Return(v) == [k |-> "return", v |-> v, exc |-> "", msg |-> "", about |-> PyNone]

Raise(exc, msg, about) == [k |-> "raise", v |-> PyNone, exc |-> exc, msg |-> msg, about |-> about]

Raised(out, exc) == out.k = "raise" /\ out.exc = exc

\* "Alias target '<v>' is not a valid member value for <Type>"
AliasTargetError(target) == Raise("ValueError", "AliasTarget", target)

\* "'<s>' is not a valid <Type>. Please use one of: ..."
InvalidValueError(value_str) == Raise("ValueError", "InvalidValue", PyStr(value_str))

\* enum's own "<v> is not a valid <Type>", raised by cls(value)
NotValidError(value) == Raise("ValueError", "NotValid", value)

\* the interpreter's "maximum recursion depth exceeded"
RecursionError == Raise("RecursionError", "Recursion", PyNone)

(***************************************************************************)
(* Enum types.  A class statement is [kind, body, aliases]: kind is the    *)
(* base class, body the sequence of NAME = value assignments and aliases   *)
(* the __ALIASES__ dictionary (a function from strings to values).         *)
(***************************************************************************)
Kinds == {"BaseStrEnum", "OptionalBaseStrEnum", "BaseIntEnum"}

StrKinds == {"BaseStrEnum", "OptionalBaseStrEnum"}

NoAliases == <<>>

\* the three base classes of the module: no members, __ALIASES__ = {}
BaseDecl(kind) == [kind |-> kind, body |-> <<>>, aliases |-> NoAliases]

\* the members the enum machinery creates: an assignment whose value was
\* already given to an earlier name makes that name an alias of the earlier
\* member, not a member of its own
RECURSIVE member_list(_)
member_list(body) ==
    IF body = <<>> THEN <<>>
    ELSE LET front == member_list(SubSeq(body, 1, Len(body) - 1))
             m == body[Len(body)]
         IN  IF \E j \in 1..Len(front) : front[j].value = m.value
             THEN front
             ELSE Append(front, m)

\* cls._value2member_map_: the position of the member with that value, 0 if none
value2member(members, v) ==
    IF \E j \in 1..Len(members) : members[j].value = v
    THEN CHOOSE j \in 1..Len(members) : members[j].value = v
    ELSE 0

\* cls.__members__: every declared name, aliases included, to its member
members_dict(body) ==
    [n \in {body[j].name : j \in 1..Len(body)} |->
        value2member(member_list(body),
                     body[CHOOSE j \in 1..Len(body) : body[j].name = n].value)]

\* enum.verify(enum.UNIQUE): no name is an alias of another member
verify_UNIQUE(body) == Len(member_list(body)) = Len(body)

(***************************************************************************)
(* Class objects.  T is the enum type a class statement of the program     *)
(* defines; the other three are the base classes of the module.  A class   *)
(* object is [id, kind, mro, members, names, aliases].                      *)
(***************************************************************************)
ClassIds == Kinds \cup {"T"}

\* the classes an attribute lookup on the class visits, in order
mro(id, kind) ==
    LET bases == IF kind = "OptionalBaseStrEnum"
                 THEN <<"OptionalBaseStrEnum", "BaseStrEnum">>
                 ELSE <<kind>>
    IN  IF id = "T" THEN <<"T">> \o bases ELSE bases

ClassObject(id, d) ==
    [id |-> id, kind |-> d.kind, mro |-> mro(id, d.kind),
     members |-> member_list(d.body), names |-> members_dict(d.body),
     aliases |-> d.aliases]

\* value_str.lower() in _aliases
HitsAliasKey(cls, value_str) == lower(value_str) \in DOMAIN cls.aliases

\* a class attribute that is set on no class yet
Unset == [has |-> FALSE, map |-> <<>>]

NoAttr == [id \in ClassIds |-> Unset]

\* hasattr(cls, name), looked up along the mro
RECURSIVE hasattr_from(_, _, _)
hasattr_from(attr, order, k) ==
    IF k > Len(order) THEN FALSE
    ELSE attr[order[k]].has \/ hasattr_from(attr, order, k + 1)

hasattr(attr, cls) == hasattr_from(attr, cls.mro, 1)

\* getattr(cls, name): the attribute of the first class of the mro that has it
RECURSIVE getattr_from(_, _, _)
getattr_from(attr, order, k) ==
    IF attr[order[k]].has THEN attr[order[k]].map
    ELSE getattr_from(attr, order, k + 1)

getattr(attr, cls) == getattr_from(attr, cls.mro, 1)

\* setattr(cls, name, lookup_map): always on the class itself
setattr(attr, cls, lookup_map) ==
    [attr EXCEPT ![cls.id] = [has |-> TRUE, map |-> lookup_map]]

(***************************************************************************)
(* BaseStrEnum._get_fuzzy_map                                              *)
(***************************************************************************)
\* one iteration of "for member in cls": the normalized value, then the
\* lowercase name, each kept only if the key is not in the map yet
fuzzy_add(lookup_map, members, k) ==
    LET val_norm == normalize(members[k].value.s)
        with_val == IF val_norm \in DOMAIN lookup_map
                    THEN lookup_map
                    ELSE lookup_map @@ (val_norm :> k)
        name_lower == lower(members[k].name)
    IN  IF name_lower \in DOMAIN with_val
        THEN with_val
        ELSE with_val @@ (name_lower :> k)

\* the map after the first k iterations of the loop
RECURSIVE fuzzy_build(_, _)
fuzzy_build(members, k) ==
    IF k = 0 THEN <<>>
    ELSE fuzzy_add(fuzzy_build(members, k - 1), members, k)

\* setattr(cls, "_fuzzy_lookup_map", lookup_map); return lookup_map
store_and_return(cls, attr, lookup_map) ==
    [map |-> lookup_map, attr |-> setattr(attr, cls, lookup_map)]

\* the whole method: [map, attr], the map returned and the attributes after
_get_fuzzy_map(cls, attr) ==
    IF hasattr(attr, cls)
    THEN [map |-> getattr(attr, cls), attr |-> attr]
    ELSE store_and_return(cls, attr, fuzzy_build(cls.members, Len(cls.members)))

(***************************************************************************)
(* Resolution.  Every operator returns [out, attr, used]: the outcome, the *)
(* class attributes after the call, and what the call consulted            *)
(* ("aliases": the alias table, "map": the lookup map).  seen is the set   *)
(* of alias keys whose fallback construction is on the call stack:         *)
(* from_fuzzy_string entered again with one of them repeats the same       *)
(* calls without end, which the interpreter ends with RecursionError.      *)
(***************************************************************************)
Res(out, attr, used) == [out |-> out, attr |-> attr, used |-> used]

\* the result r of a call made in "try: ... except ValueError: <handler>",
\* where the handler returns or raises the outcome given
except_ValueError(r, handler) ==
    IF Raised(r.out, "ValueError") THEN Res(handler, r.attr, r.used) ELSE r

\* the result r of a call made after the caller consulted what used names
after_use(used, r) == Res(r.out, r.attr, r.used \cup used)

NONE == <<"N", "O", "N", "E">>

\* the lookups of steps 2 and 3 of from_fuzzy_string in a map: the raw
\* lowercase input first, then the normalized input
probe_keys(value_str, value_lower, normalized_value_input, fuzzy_map) ==
    IF value_lower \in DOMAIN fuzzy_map
    THEN Return(PyMember(fuzzy_map[value_lower]))
    ELSE IF normalized_value_input \in DOMAIN fuzzy_map
    THEN Return(PyMember(fuzzy_map[normalized_value_input]))
    ELSE InvalidValueError(value_str)

\* steps 2 and 3 of from_fuzzy_string on the map _get_fuzzy_map returned
fuzzy_probe(value_str, fuzzy_map) ==
    probe_keys(value_str, lower(value_str),
               replace(replace(lower(value_str), "-", "_"), " ", "_"), fuzzy_map)

\* steps 2 and 3 of from_fuzzy_string, g being what _get_fuzzy_map returned
fuzzy_steps(value_str, g) ==
    Res(fuzzy_probe(value_str, g.map), g.attr, {"aliases", "map"})

RECURSIVE from_fuzzy_string(_, _, _, _)
RECURSIVE EnumCall(_, _, _, _)
RECURSIVE _missing_(_, _, _, _)

\* from_fuzzy_string that probes the lookup map before the alias table
from_fuzzy_string_map_first(cls, value_str, attr, seen) ==
    LET value_lower == lower(value_str)
        g == _get_fuzzy_map(cls, attr)
        k == value2member(cls.members, cls.aliases[value_lower])
        normalized_value_input == replace(replace(value_lower, "-", "_"), " ", "_")
        used == {"aliases", "map"}
    IN  IF value_lower \in DOMAIN g.map
        THEN Res(Return(PyMember(g.map[value_lower])), g.attr, used)
        ELSE IF value_lower \in DOMAIN cls.aliases
        THEN IF k # 0 THEN Res(Return(PyMember(k)), g.attr, used)
             ELSE Res(AliasTargetError(cls.aliases[value_lower]), g.attr, used)
        ELSE IF normalized_value_input \in DOMAIN g.map
        THEN Res(Return(PyMember(g.map[normalized_value_input])), g.attr, used)
        ELSE Res(InvalidValueError(value_str), g.attr, used)

\* BaseStrEnum.from_fuzzy_string
from_fuzzy_string(cls, value_str, attr, seen) ==
    LET value_lower == lower(value_str)
        _aliases == cls.aliases
    IN  IF value_lower \in DOMAIN _aliases
        THEN LET alias_target_value == _aliases[value_lower]
                 k == value2member(cls.members, alias_target_value)
             IN  IF k # 0 THEN Res(Return(PyMember(k)), attr, {"aliases"})
                 ELSE IF value_lower \in seen THEN Res(RecursionError, attr, {"aliases"})
                 ELSE after_use({"aliases"},
                          except_ValueError(
                              EnumCall(cls, alias_target_value, attr,
                                       seen \cup {value_lower}),
                              AliasTargetError(alias_target_value)))
        ELSE fuzzy_steps(value_str, _get_fuzzy_map(cls, attr))

\* what cls(value) does with the result r of the _missing_ hook: a hook
\* that returns None makes the call raise ValueError
after_missing(value, r) ==
    IF r.out.k = "raise" THEN r
    ELSE IF r.out.v = PyNone THEN Res(NotValidError(value), r.attr, r.used)
    ELSE r

\* cls(value): the lookup by value of the enum machinery, which raises
\* TypeError on a class without members, then the _missing_ hook
EnumCall(cls, value, attr, seen) ==
    IF IsMember(value) THEN Res(Return(value), attr, {})
    ELSE IF value2member(cls.members, value) # 0
    THEN Res(Return(PyMember(value2member(cls.members, value))), attr, {})
    ELSE IF cls.members = <<>>
    THEN Res(Raise("TypeError", "NoMembers", PyNone), attr, {})
    ELSE after_missing(value, _missing_(cls, value, attr, seen))

\* _missing_ that turns a failed fuzzy resolution into the NONE member
_missing_failure_to_NONE(cls, value, attr, seen) ==
    IF cls.kind # "OptionalBaseStrEnum" THEN Res(Return(PyNone), attr, {})
    ELSE IF value = PyNone
    THEN Res(Return(PyMember(cls.names[NONE])), attr, {})
    ELSE IF IsStr(value)
    THEN except_ValueError(from_fuzzy_string(cls, value.s, attr, seen),
                           Return(PyMember(cls.names[NONE])))
    ELSE Res(Return(PyNone), attr, {})

\* OptionalBaseStrEnum._missing_; the other classes keep the hook of the
\* enum machinery, which returns None
_missing_(cls, value, attr, seen) ==
    IF cls.kind # "OptionalBaseStrEnum" THEN Res(Return(PyNone), attr, {})
    ELSE IF value = PyNone
    THEN IF NONE \in DOMAIN cls.names
         THEN Res(Return(PyMember(cls.names[NONE])), attr, {})
         ELSE Res(Raise("AttributeError", "NONE", PyNone), attr, {})
    ELSE IF IsStr(value)
    THEN except_ValueError(from_fuzzy_string(cls, value.s, attr, seen),
                           Return(PyNone))
    ELSE Res(Return(PyNone), attr, {})

\* the result r of "try: return cls(value)" is one "except (ValueError,
\* TypeError)" catches
caught(r) == Raised(r.out, "ValueError") \/ Raised(r.out, "TypeError")

\* get_or_none after "try: return cls(value)" gave r: the except clause
get_or_none_except(cls, value, r) ==
    IF ~caught(r) THEN r
    ELSE IF IsStr(value)
    THEN after_use(r.used,
             except_ValueError(from_fuzzy_string(cls, value.s, r.attr, {}),
                               Return(PyNone)))
    ELSE Res(Return(PyNone), r.attr, r.used)

\* BaseStrEnum.get_or_none
get_or_none(cls, value, attr) ==
    IF IsMember(value) THEN Res(Return(value), attr, {})
    ELSE get_or_none_except(cls, value, EnumCall(cls, value, attr, {}))

(***************************************************************************)
(* BaseIntEnum                                                             *)
(***************************************************************************)
\* one iteration of "for member in cls" of _get_name_lookup_map
name_add(lookup_map, members, k) ==
    LET name_lower == lower(members[k].name)
    IN  IF name_lower \in DOMAIN lookup_map
        THEN lookup_map
        ELSE lookup_map @@ (name_lower :> k)

RECURSIVE name_build(_, _)
name_build(members, k) ==
    IF k = 0 THEN <<>>
    ELSE name_add(name_build(members, k - 1), members, k)

\* BaseIntEnum._get_name_lookup_map
_get_name_lookup_map(cls, attr) ==
    IF hasattr(attr, cls)
    THEN [map |-> getattr(attr, cls), attr |-> attr]
    ELSE store_and_return(cls, attr, name_build(cls.members, Len(cls.members)))

\* int(value_str): surrounding whitespace is dropped, then an optional sign,
\* then digits, single underscores allowed between digits.  Python integers
\* are unbounded; the model computes a number of at most MaxIntDigits digits
\* and keeps IntCeiling, which is above every member value, for a longer one.
MaxIntDigits == 3

RECURSIVE Power10(_)
Power10(n) == IF n = 0 THEN 1 ELSE 10 * Power10(n - 1)

IntCeiling == Power10(MaxIntDigits)

Digits == {"0", "1", "2", "3"}

DigitValue(c) == CASE c = "0" -> 0 [] c = "1" -> 1 [] c = "2" -> 2 [] c = "3" -> 3

RECURSIVE strip(_)
strip(s) ==
    IF s = <<>> THEN s
    ELSE IF Head(s) = " " THEN strip(Tail(s))
    ELSE IF s[Len(s)] = " " THEN strip(SubSeq(s, 1, Len(s) - 1))
    ELSE s

DigitsOk(d) ==
    /\ d # <<>>
    /\ \A k \in 1..Len(d) : d[k] \in Digits \cup {"_"}
    /\ d[1] # "_" /\ d[Len(d)] # "_"
    /\ \A k \in 1..(Len(d) - 1) : ~(d[k] = "_" /\ d[k + 1] = "_")

RECURSIVE DropZeros(_)
DropZeros(d) == IF d # <<>> /\ Head(d) = "0" THEN DropZeros(Tail(d)) ELSE d

RECURSIVE DigitsValue(_, _)
DigitsValue(d, acc) ==
    IF d = <<>> THEN acc
    ELSE DigitsValue(Tail(d), acc * 10 + DigitValue(Head(d)))

\* the number the significant digits sig denote
SignificantNumber(sig) ==
    IF Len(sig) > MaxIntDigits THEN IntCeiling ELSE DigitsValue(sig, 0)

DigitsNumber(d) == SignificantNumber(DropZeros(SelectSeq(d, LAMBDA c : c # "_")))

\* the digits d after the sign: [ok, n], ok FALSE where int() raises ValueError
int_digits(sign, d) ==
    IF DigitsOk(d) THEN [ok |-> TRUE, n |-> sign * DigitsNumber(d)]
    ELSE [ok |-> FALSE, n |-> 0]

int_stripped(body) ==
    IF body # <<>> /\ body[1] \in {"-", "+"}
    THEN int_digits(IF body[1] = "-" THEN 0 - 1 ELSE 1, Tail(body))
    ELSE int_digits(1, body)

int(value_str) == int_stripped(strip(value_str))

\* step 3 without its except clause: what cls(int_value) raises reaches the caller
int_step_uncaught(value_str, c) == c.out

\* "return cls(int_value)" in "try: ... except (ValueError, TypeError): pass",
\* c being the result of cls(int_value); what falls through raises ValueError
int_step(value_str, c) ==
    IF caught(c) THEN InvalidValueError(value_str) ELSE c.out

\* step 3 of from_fuzzy_int_string, parsed being what int(value_str) gave
parse_step(cls, value_str, attr, parsed) ==
    IF parsed.ok
    THEN int_step(value_str, EnumCall(cls, PyInt(parsed.n), attr, {}))
    ELSE InvalidValueError(value_str)

\* steps 2 and 3 of from_fuzzy_int_string: the lowercase input is looked up
\* in the map _get_name_lookup_map returned, then the input is parsed
name_probe(cls, value_str, name_map, attr) ==
    IF lower(value_str) \in DOMAIN name_map
    THEN Return(PyMember(name_map[lower(value_str)]))
    ELSE parse_step(cls, value_str, attr, int(value_str))

\* steps 2 and 3, g being what _get_name_lookup_map returned
name_steps(cls, value_str, g) ==
    Res(name_probe(cls, value_str, g.map, g.attr), g.attr, {"aliases", "map"})

\* BaseIntEnum.from_fuzzy_int_string
from_fuzzy_int_string(cls, value_str, attr) ==
    LET value_lower == lower(value_str)
        _aliases == cls.aliases
    IN  IF value_lower \in DOMAIN _aliases
        THEN LET int_target_value == _aliases[value_lower]
                 k == value2member(cls.members, int_target_value)
             IN  IF k # 0 THEN Res(Return(PyMember(k)), attr, {"aliases"})
                 ELSE after_use({"aliases"},
                          except_ValueError(
                              EnumCall(cls, int_target_value, attr, {}),
                              AliasTargetError(int_target_value)))
        ELSE name_steps(cls, value_str, _get_name_lookup_map(cls, attr))

\* get_or_none after "try: return cls(value)" gave r: the except clause
int_get_or_none_except(cls, value, r) ==
    IF ~caught(r) THEN r
    ELSE IF IsStr(value)
    THEN after_use(r.used,
             except_ValueError(from_fuzzy_int_string(cls, value.s, r.attr),
                               Return(PyNone)))
    ELSE Res(Return(PyNone), r.attr, r.used)

\* BaseIntEnum.get_or_none
int_get_or_none(cls, value, attr) ==
    IF IsMember(value) THEN Res(Return(value), attr, {})
    ELSE IF value = PyNone THEN Res(Return(PyNone), attr, {})
    ELSE int_get_or_none_except(cls, value, EnumCall(cls, value, attr, {}))

(***************************************************************************)
(* The class statements and the inputs the model tries                     *)
(***************************************************************************)
NamePool == {<<"A">>, NONE}

StrValuePool == {<<"A">>, <<"a", "-", "b">>, <<"a", " ", "b">>}

IntValuePool == {1, 2}

ValuePool(kind) ==
    IF kind = "BaseIntEnum" THEN {PyInt(n) : n \in IntValuePool}
    ELSE {PyStr(v) : v \in StrValuePool}

\* class bodies: every sequence of assignments that gives each name of the
\* pool at most once (the enum machinery rejects a name assigned twice)
Bodies(kind) ==
    {b \in UNION {[1..n -> [name : NamePool, value : ValuePool(kind)]] :
                     n \in 0..Cardinality(NamePool)} :
        \A j, k \in 1..Len(b) : j # k => b[j].name # b[k].name}

\* __ALIASES__ dictionaries; the keys are lowercase, as the class documents,
\* and may hold separators
StrAliasPool ==
    { NoAliases,
      (<<"a">> :> PyStr(<<"a", "-", "b">>)),
      (<<"a", " ", "b">> :> PyStr(<<"A">>)),
      (<<"x">> :> PyStr(<<"x">>)),
      (<<"x">> :> PyStr(<<"b">>)) @@ (<<"b">> :> PyStr(<<"A">>)) }

IntAliasPool ==
    { NoAliases,
      (<<"a">> :> PyInt(2)),
      (<<"x">> :> PyInt(1)),
      (<<"x">> :> PyInt(3)) }

AliasPool(kind) == IF kind = "BaseIntEnum" THEN IntAliasPool ELSE StrAliasPool

Separators == {"-", "_", " "}

\* the characters a character may be written as: a letter in either case,
\* a separator as any separator
CharClass(c) ==
    IF c \in Separators THEN Separators ELSE {LowerChar(c), UpperChar(c)}

\* the spellings of a string: every mixture of letter case and separators
RECURSIVE Variants(_)
Variants(s) ==
    IF s = <<>> THEN {<<>>}
    ELSE {<<h>> \o t : h \in CharClass(Head(s)), t \in Variants(Tail(s))}

\* a string of n copies of one character
Repeat(c, n) == [k \in 1..n |-> c]

(***************************************************************************)
(* State                                                                   *)
(***************************************************************************)
VARIABLES
    decl,               \* the class statement of T: [kind, body, aliases]
    status,             \* "none": not executed yet; "defined"; or the error it raised
    fuzzy_lookup_map,   \* the _fuzzy_lookup_map attribute of every class
    name_lookup_map,    \* the _name_lookup_map attribute of every class
    last,               \* the call that has just returned: [op, cls, arg, out, used]
    thread,             \* the lookup each thread is in: [pc, value_str, lookup_map, idx, map]
    stores,             \* how often a thread has stored a lookup map on T
    sanitized           \* the sanitize_filename call that has just returned:
                        \* [filename, replacement, out]

vars == <<decl, status, fuzzy_lookup_map, name_lookup_map, last, thread, stores,
          sanitized>>

NumThreads == 2

Threads == 1..NumThreads

\* a thread that is in no call
Idle == [pc |-> "idle", value_str |-> <<>>, lookup_map |-> <<>>, idx |-> 0, map |-> <<>>]


\* no call has returned since the caller last went on
NoCall == [op |-> "none", cls |-> "T", arg |-> PyNone, out |-> Return(PyNone),
           used |-> {}]

\* sanitize_filename has not been called
NotSanitized == [filename |-> <<>>, replacement |-> <<>>, out |-> Return(PyNone)]

\* The module is imported and the program is about to define T as a
\* subclass of one of the three base classes.
Init ==
    /\ \E kind \in Kinds : decl = BaseDecl(kind)
    /\ status = "none"
    /\ fuzzy_lookup_map = NoAttr
    /\ name_lookup_map = NoAttr
    /\ last = NoCall
    /\ thread = [t \in Threads |-> Idle]
    /\ stores = 0
    /\ sanitized = NotSanitized

\* the class object a call is made on
TheClass(id) ==
    IF id = "T" THEN ClassObject("T", decl) ELSE ClassObject(id, BaseDecl(id))

\* the classes of T's hierarchy that exist
Classes ==
    {id \in ClassIds : \E k \in 1..Len(mro("T", decl.kind)) : mro("T", decl.kind)[k] = id}
    \ (IF status = "defined" THEN {} ELSE {"T"})

\* those that derive from BaseStrEnum resp. BaseIntEnum
StrClasses == IF decl.kind \in StrKinds THEN Classes ELSE {}

IntClasses == IF decl.kind = "BaseIntEnum" THEN Classes ELSE {}

(***************************************************************************)
(* The class statement                                                     *)
(***************************************************************************)
\* __init_subclass__ that never checks for NONE
__init_subclass__unchecked(kind, body) == FALSE

\* OptionalBaseStrEnum.__init_subclass__: TRUE where it raises TypeError
__init_subclass__(kind, body) ==
    kind = "OptionalBaseStrEnum" /\ NONE \notin DOMAIN members_dict(body)

\* class T(kind): the enum machinery creates the members, then runs
\* __init_subclass__.  The verify(UNIQUE) decorators of the module are
\* applied to the three base classes when the module is imported and to
\* nothing else, so no step of this statement runs verify_UNIQUE.
DefineClass(kind, body, aliases) ==
    /\ status = "none"
    /\ last = NoCall
    /\ kind = decl.kind
    /\ decl' = [kind |-> kind, body |-> body, aliases |-> aliases]
    /\ status' = IF __init_subclass__(kind, body) THEN "TypeError" ELSE "defined"
    /\ UNCHANGED <<fuzzy_lookup_map, name_lookup_map, last, thread, stores, sanitized>>

(***************************************************************************)
(* Calls                                                                   *)
(***************************************************************************)
\* the limit the tests of the input guard name
MAX_INPUT_LENGTH == 1024

LongStrings ==
    {Repeat("a", MAX_INPUT_LENGTH), Repeat("a", MAX_INPUT_LENGTH + 1),
     Repeat("1", MAX_INPUT_LENGTH + 1)}

ExtraStrings ==
    {<<"z">>, <<"1">>, <<"2">>, <<"3">>, <<" ", "2">>, <<"a", "-", "-", "b">>}

\* the strings tried on a class: every spelling of its member values, of
\* its names, of its alias keys and of its alias targets, and some others
ShortStrings(cls) ==
    LET body == IF cls.id = "T" THEN decl.body ELSE <<>>
        texts == {body[j].value.s : j \in 1..Len(body)}
                 \cup {body[j].name : j \in 1..Len(body)}
                 \cup DOMAIN cls.aliases
                 \cup {cls.aliases[a].s : a \in DOMAIN cls.aliases}
    IN  UNION {Variants(t) : t \in texts} \cup ExtraStrings

\* the values tried where any object may be passed
Objects(cls) ==
    {PyNone} \cup {PyInt(n) : n \in 1..3}
    \cup {PyMember(k) : k \in 1..Len(cls.members)}
    \cup {PyStr(t) : t \in ShortStrings(cls)}

Call(op, id, arg, r) ==
    [op |-> op, cls |-> id, arg |-> arg, out |-> r.out, used |-> r.used]

\* a call on a string enum class returns: r is its result
StrReturn(op, id, arg, r) ==
    /\ fuzzy_lookup_map' = r.attr
    /\ last' = Call(op, id, arg, r)
    /\ UNCHANGED <<decl, status, name_lookup_map, thread, stores, sanitized>>

\* a call on an integer enum class returns: r is its result
IntReturn(op, id, arg, r) ==
    /\ name_lookup_map' = r.attr
    /\ last' = Call(op, id, arg, r)
    /\ UNCHANGED <<decl, status, fuzzy_lookup_map, thread, stores, sanitized>>

\* cls.from_fuzzy_string(value_str)
FromFuzzyString(id, value_str) ==
    /\ last = NoCall
    /\ id \in StrClasses
    /\ StrReturn("from_fuzzy_string", id, PyStr(value_str),
                 from_fuzzy_string(TheClass(id), value_str, fuzzy_lookup_map, {}))

\* cls.from_fuzzy_int_string(value_str)
FromFuzzyIntString(id, value_str) ==
    /\ last = NoCall
    /\ id \in IntClasses
    /\ IntReturn("from_fuzzy_int_string", id, PyStr(value_str),
                 from_fuzzy_int_string(TheClass(id), value_str, name_lookup_map))

\* cls.get_or_none(value) on a string enum class
GetOrNone(id, value) ==
    /\ last = NoCall
    /\ id \in StrClasses
    /\ StrReturn("get_or_none", id, value,
                 get_or_none(TheClass(id), value, fuzzy_lookup_map))

\* cls.get_or_none(value) on an integer enum class
IntGetOrNone(id, value) ==
    /\ last = NoCall
    /\ id \in IntClasses
    /\ IntReturn("get_or_none", id, value,
                 int_get_or_none(TheClass(id), value, name_lookup_map))

\* cls(value) on a string enum class
Construct(id, value) ==
    /\ last = NoCall
    /\ id \in StrClasses
    /\ StrReturn("construct", id, value,
                 EnumCall(TheClass(id), value, fuzzy_lookup_map, {}))

\* the caller takes the outcome of the call and goes on
Discard ==
    /\ last # NoCall
    /\ last' = NoCall
    /\ UNCHANGED <<decl, status, fuzzy_lookup_map, name_lookup_map, thread,
                   stores, sanitized>>

Next ==
    \/ \E kind \in Kinds : \E body \in Bodies(kind) : \E aliases \in AliasPool(kind) :
          DefineClass(kind, body, aliases)
    \/ \E id \in ClassIds : \E value_str \in ShortStrings(TheClass(id)) :
          FromFuzzyString(id, value_str)
    \/ \E id \in ClassIds : \E value_str \in ShortStrings(TheClass(id)) :
          FromFuzzyIntString(id, value_str)
    \/ \E id \in ClassIds : \E value \in Objects(TheClass(id)) : GetOrNone(id, value)
    \/ \E id \in ClassIds : \E value \in Objects(TheClass(id)) : IntGetOrNone(id, value)
    \/ \E id \in ClassIds : \E value \in Objects(TheClass(id)) : Construct(id, value)
    \/ Discard

Spec == Init /\ [][Next]_vars

(***************************************************************************)
(* The specification of the input guard: the same program, called with     *)
(* strings at and above the length limit.                                  *)
(***************************************************************************)
GuardNext ==
    \/ \E kind \in Kinds : \E body \in Bodies(kind) : DefineClass(kind, body, NoAliases)
    \/ \E id \in ClassIds : \E value_str \in LongStrings \cup ExtraStrings :
          FromFuzzyString(id, value_str)
    \/ \E id \in ClassIds : \E value_str \in LongStrings \cup ExtraStrings :
          FromFuzzyIntString(id, value_str)
    \/ Discard

GuardSpec == Init /\ [][GuardNext]_vars

(***************************************************************************)
(* Concurrent lookups.  T is defined and threads call from_fuzzy_string    *)
(* (from_fuzzy_int_string on an integer enum type) on it.  The interpreter *)
(* may switch threads between any two bytecodes, so a thread's call is a   *)
(* sequence of steps: the getattr, every iteration of the loop that fills  *)
(* the local lookup_map, the setattr, and the probes of the map returned.  *)
(***************************************************************************)
IsIntType == decl.kind = "BaseIntEnum"

\* the attribute the type's lookup map is stored in
MapAttr == IF IsIntType THEN name_lookup_map ELSE fuzzy_lookup_map

\* the strings threads look up
ThreadStrings == {<<"a">>, <<"z">>}

\* try: return getattr(cls, ...); except AttributeError: lookup_map = {}
TryGetattr(t, value_str) ==
    LET cls == TheClass("T")
    IN  /\ status = "defined"
        /\ thread[t].pc = "idle"
        /\ ~HitsAliasKey(cls, value_str)
        /\ thread' = [thread EXCEPT ![t] =
              IF hasattr(MapAttr, cls)
              THEN [pc |-> "probe", value_str |-> value_str, lookup_map |-> <<>>,
                    idx |-> 0, map |-> getattr(MapAttr, cls)]
              ELSE [pc |-> "loop", value_str |-> value_str, lookup_map |-> <<>>,
                    idx |-> 0, map |-> <<>>]]
        /\ UNCHANGED <<decl, status, fuzzy_lookup_map, name_lookup_map, last,
                       stores, sanitized>>

\* the loop filling the map on the class instead of a local dictionary:
\* every iteration stores the map it has so far
LoopStep_on_class(t) ==
    LET cls == TheClass("T")
        k == thread[t].idx + 1
        filled == IF IsIntType
                  THEN name_add(thread[t].lookup_map, cls.members, k)
                  ELSE fuzzy_add(thread[t].lookup_map, cls.members, k)
    IN  /\ thread[t].pc = "loop"
        /\ k <= Len(cls.members)
        /\ thread' = [thread EXCEPT ![t].idx = k, ![t].lookup_map = filled]
        /\ IF IsIntType
           THEN /\ name_lookup_map' = setattr(name_lookup_map, cls, filled)
                /\ UNCHANGED fuzzy_lookup_map
           ELSE /\ fuzzy_lookup_map' = setattr(fuzzy_lookup_map, cls, filled)
                /\ UNCHANGED name_lookup_map
        /\ UNCHANGED <<decl, status, last, stores, sanitized>>

\* one iteration of "for member in cls" on the thread's local lookup_map
LoopStep(t) ==
    LET cls == TheClass("T")
        k == thread[t].idx + 1
    IN  /\ thread[t].pc = "loop"
        /\ k <= Len(cls.members)
        /\ thread' = [thread EXCEPT ![t].idx = k,
                                    ![t].lookup_map =
                                        IF IsIntType
                                        THEN name_add(thread[t].lookup_map, cls.members, k)
                                        ELSE fuzzy_add(thread[t].lookup_map, cls.members, k)]
        /\ UNCHANGED <<decl, status, fuzzy_lookup_map, name_lookup_map, last,
                       stores, sanitized>>

\* setattr(cls, ..., lookup_map); return lookup_map
Setattr(t) ==
    LET cls == TheClass("T")
    IN  /\ thread[t].pc = "loop"
        /\ thread[t].idx = Len(cls.members)
        /\ IF IsIntType
           THEN /\ name_lookup_map' = setattr(name_lookup_map, cls, thread[t].lookup_map)
                /\ UNCHANGED fuzzy_lookup_map
           ELSE /\ fuzzy_lookup_map' = setattr(fuzzy_lookup_map, cls, thread[t].lookup_map)
                /\ UNCHANGED name_lookup_map
        /\ stores' = stores + 1
        /\ thread' = [thread EXCEPT ![t].pc = "probe", ![t].map = thread[t].lookup_map]
        /\ UNCHANGED <<decl, status, last, sanitized>>

\* the rest of the call: the probes of the map, and the return or raise
Probe(t) ==
    LET cls == TheClass("T")
        out == IF IsIntType
               THEN name_probe(cls, thread[t].value_str, thread[t].map, name_lookup_map)
               ELSE fuzzy_probe(thread[t].value_str, thread[t].map)
    IN  /\ thread[t].pc = "probe"
        /\ last' = [op |-> IF IsIntType THEN "from_fuzzy_int_string" ELSE "from_fuzzy_string",
                    cls |-> "T", arg |-> PyStr(thread[t].value_str), out |-> out,
                    used |-> {"aliases", "map"}]
        /\ thread' = [thread EXCEPT ![t] = Idle]
        /\ UNCHANGED <<decl, status, fuzzy_lookup_map, name_lookup_map,
                       stores, sanitized>>

\* T is defined, with two members; no lookup has been made yet
ConcInit ==
    /\ \E kind \in Kinds : \E body \in Bodies(kind) :
          /\ Len(body) = Cardinality(NamePool)
          /\ decl = [kind |-> kind, body |-> body, aliases |-> NoAliases]
    /\ status = "defined"
    /\ fuzzy_lookup_map = NoAttr
    /\ name_lookup_map = NoAttr
    /\ last = NoCall
    /\ thread = [t \in Threads |-> Idle]
    /\ stores = 0
    /\ sanitized = NotSanitized

ConcNext ==
    \/ \E t \in Threads : \E value_str \in ThreadStrings : TryGetattr(t, value_str)
    \/ \E t \in Threads : LoopStep(t)
    \/ \E t \in Threads : Setattr(t)
    \/ \E t \in Threads : Probe(t)

ConcSpec == ConcInit /\ [][ConcNext]_vars

(***************************************************************************)
(* security.sanitize_filename.  _get_replacement_pattern memoizes the      *)
(* compilation of a regular expression, a pure function of the replacement *)
(* string; the model applies the pattern and keeps no memo.                *)
(***************************************************************************)
\* the characters of the model that \w matches: letters, digits, underscore
WordChars == UpperCase \cup {LowerChar(c) : c \in UpperCase} \cup Digits \cup {"_"}

\* the index of the last "/" of the path, 0 if it has none
LastSlash(path) ==
    IF \E k \in 1..Len(path) : path[k] = "/"
    THEN CHOOSE k \in 1..Len(path) :
            path[k] = "/" /\ \A j \in (k + 1)..Len(path) : path[j] # "/"
    ELSE 0

\* os.path.basename: what follows the last "/"
basename(path) == SubSeq(path, LastSlash(path) + 1, Len(path))

\* the characters _INVALID_CHARS_PATTERN does not match
ValidChars == WordChars \cup {".", "-"}

\* the substitution, character by character
RECURSIVE sub_each(_, _)
sub_each(replacement, filename) ==
    IF filename = <<>> THEN <<>>
    ELSE (IF Head(filename) \in ValidChars THEN <<Head(filename)>> ELSE replacement)
         \o sub_each(replacement, Tail(filename))

\* _INVALID_CHARS_PATTERN.sub(replacement, filename): every character that
\* is none of \w, "." and "-" becomes the replacement string; a filename
\* the pattern matches nowhere is returned as it is
sub_invalid(replacement, filename) ==
    IF \A k \in 1..Len(filename) : filename[k] \in ValidChars
    THEN filename
    ELSE sub_each(replacement, filename)

\* the string starts with the prefix
StartsWith(s, prefix) ==
    Len(prefix) <= Len(s) /\ SubSeq(s, 1, Len(prefix)) = prefix

\* the string after every copy of the replacement it starts with
RECURSIVE SkipCopies(_, _)
SkipCopies(replacement, s) ==
    IF StartsWith(s, replacement)
    THEN SkipCopies(replacement, SubSeq(s, Len(replacement) + 1, Len(s)))
    ELSE s

\* the substitution of every longest run of copies of the replacement by
\* one copy, from left to right
RECURSIVE collapse_runs(_, _)
collapse_runs(replacement, filename) ==
    IF filename = <<>> THEN <<>>
    ELSE IF StartsWith(filename, replacement)
    THEN replacement \o collapse_runs(replacement, SkipCopies(replacement, filename))
    ELSE <<Head(filename)>> \o collapse_runs(replacement, Tail(filename))

\* re.compile(escape(replacement) + "+").sub(replacement, filename), for a
\* replacement that is not empty; a filename the pattern matches nowhere
\* is returned as it is
collapse(replacement, filename) ==
    IF \E k \in 1..Len(filename) :
          StartsWith(SubSeq(filename, k, Len(filename)), replacement)
    THEN collapse_runs(replacement, filename)
    ELSE filename

\* str.strip(chars): the characters of chars are dropped from both ends
strip_chars(s, chars) ==
    IF \A k \in 1..Len(s) : s[k] \in chars THEN <<>>
    ELSE SubSeq(s,
                CHOOSE k \in 1..Len(s) :
                    s[k] \notin chars /\ \A j \in 1..(k - 1) : s[j] \in chars,
                CHOOSE k \in 1..Len(s) :
                    s[k] \notin chars /\ \A j \in (k + 1)..Len(s) : s[j] \in chars)

\* the characters of a string
CharsOf(s) == {s[k] : k \in 1..Len(s)}

\* filename.split('.')[0]: what precedes the first dot
first_part(filename) ==
    IF \E k \in 1..Len(filename) : filename[k] = "."
    THEN SubSeq(filename, 1,
                (CHOOSE k \in 1..Len(filename) :
                    filename[k] = "." /\ \A j \in 1..(k - 1) : filename[j] # ".") - 1)
    ELSE filename

upper(s) == [k \in 1..Len(s) |-> UpperChar(s[k])]

MAX_FILENAME_LENGTH == 255

RESERVED ==
    {<<"C", "O", "N">>, <<"P", "R", "N">>, <<"A", "U", "X">>, <<"N", "U", "L">>}
    \cup {<<"C", "O", "M", d>> : d \in {"1", "2", "3", "4", "5", "6", "7", "8", "9"}}
    \cup {<<"L", "P", "T", d>> : d \in {"1", "2", "3", "4", "5", "6", "7", "8", "9"}}

\* steps 6 and 7: the filename is cut, then prefixed if its first part is reserved
truncate(filename) ==
    IF Len(filename) > MAX_FILENAME_LENGTH
    THEN SubSeq(filename, 1, MAX_FILENAME_LENGTH)
    ELSE filename

prefix_reserved(replacement, filename) ==
    IF upper(first_part(filename)) \in RESERVED
    THEN replacement \o filename
    ELSE filename

\* steps 5 to 7, on the stripped filename
check_stripped(replacement, filename) ==
    IF filename = <<>>
    THEN Raise("ValueError", "EmptyFilename", PyNone)
    ELSE Return(PyStr(prefix_reserved(replacement, truncate(filename))))

\* steps 3 and 4
collapse_step(replacement, filename) ==
    IF replacement # <<>> THEN collapse(replacement, filename) ELSE filename

\* re.sub reads the replacement as a template in which a backslash starts
\* an escape: a backslash that ends the template makes sub raise re.error
\* ("bad escape (end of pattern)"), for every filename.  The replacement
\* strings of the model hold a backslash nowhere else.
bad_template(replacement) ==
    replacement # <<>> /\ replacement[Len(replacement)] = "\\"

sanitize_filename(filename, replacement) ==
    IF bad_template(replacement)
    THEN Raise("re.error", "BadEscape", PyStr(replacement))
    ELSE check_stripped(replacement,
             strip_chars(collapse_step(replacement,
                             sub_invalid(replacement, basename(filename))),
                         CharsOf(replacement) \cup {"."}))

\* the filenames tried: up to MaxPieces pieces, one after the other
MaxPieces == 3

Pieces ==
    {<<"C", "O", "N">>, <<"c", "o", "n">>, <<"C", "O", "M", "1">>, <<"a">>,
     <<".">>, <<"/">>, <<"*">>, <<"_">>}

RECURSIVE Concat(_)
Concat(parts) == IF parts = <<>> THEN <<>> ELSE Head(parts) \o Concat(Tail(parts))

\* filenames above the length limit
LongNames ==
    {Repeat("a", MAX_FILENAME_LENGTH + 1),
     <<"C", "O", "N", ".">> \o Repeat("a", MAX_FILENAME_LENGTH)}

Filenames ==
    {Concat(parts) : parts \in UNION {[1..n -> Pieces] : n \in 0..MaxPieces}}
    \cup LongNames

Replacements == {<<>>, <<"_">>, <<"-">>, <<"/">>, <<"\\">>, <<"a", "/", "b">>}

\* sanitize_filename(filename, replacement) is called and returns or raises
SanitizeFilename(filename, replacement) ==
    /\ sanitized = NotSanitized
    /\ sanitized' = [filename |-> filename, replacement |-> replacement,
                     out |-> sanitize_filename(filename, replacement)]
    /\ UNCHANGED <<decl, status, fuzzy_lookup_map, name_lookup_map, last, thread, stores>>

SanitizeInit == Init /\ decl = BaseDecl("BaseStrEnum")

\* the caller takes the outcome of the call and goes on
TakeFilename ==
    /\ sanitized # NotSanitized
    /\ sanitized' = NotSanitized
    /\ UNCHANGED <<decl, status, fuzzy_lookup_map, name_lookup_map, last, thread, stores>>

SanitizeNext ==
    \/ \E filename \in Filenames : \E replacement \in Replacements :
          SanitizeFilename(filename, replacement)
    \/ TakeFilename

SanitizeSpec == SanitizeInit /\ [][SanitizeNext]_vars

(***************************************************************************)
(* Properties                                                              *)
(***************************************************************************)
\* the enum type the program defined
T == ClassObject("T", decl)

\* the call that has just returned was made on T with one of these methods
OnT(ops) == last.cls = "T" /\ last.op \in ops

FuzzyOps == {"from_fuzzy_string", "from_fuzzy_int_string"}

\* the spellings of a string in every letter case
RECURSIVE CaseVariants(_)
CaseVariants(s) ==
    IF s = <<>> THEN {<<>>}
    ELSE {<<h>> \o t : h \in {LowerChar(Head(s)), UpperChar(Head(s))},
                       t \in CaseVariants(Tail(s))}

\* the lookup keys of member k of a string enum type
Keys(cls, k) == {normalize(cls.members[k].value.s), lower(cls.members[k].name)}

\* no two members of the type share a lookup key
Unambiguous(cls) ==
    \A j, k \in 1..Len(cls.members) : j # k => Keys(cls, j) \cap Keys(cls, k) = {}

\* the target of the alias the string hits
AliasTarget(cls, value_str) == cls.aliases[lower(value_str)]

\* the string matches no alias, no name and no normalized value of the type
MatchesNothing(cls, value_str) ==
    /\ ~HitsAliasKey(cls, value_str)
    /\ \A k \in 1..Len(cls.members) :
          /\ lower(value_str) # lower(cls.members[k].name)
          /\ normalize(value_str) # normalize(cls.members[k].value.s)

\* C1: for every member m of a string enum type, from_fuzzy_string returns
\* exactly m when given m.value, m.name in any letter case, or m.value with
\* its separators written as any of '-', '_', ' ' and in any letter case.
\* Stated here for the types the claim is least in doubt for: no two members
\* share a lookup key and the input is no alias key.
C1_EveryMemberResolves ==
    (OnT({"from_fuzzy_string"}) /\ decl.kind \in StrKinds
        /\ Unambiguous(T) /\ ~HitsAliasKey(T, last.arg.s)) =>
        \A k \in 1..Len(T.members) :
            last.arg.s \in Variants(T.members[k].value.s) \cup CaseVariants(T.members[k].name)
                => last.out = Return(PyMember(k))

\* C2: an input whose lowercase form is an alias key resolves to the member
\* whose value is the alias target, whatever name or normalized value of
\* another member it also spells, and the lookup map is not consulted.
C2_AliasesTakePrecedence ==
    (OnT(FuzzyOps) /\ HitsAliasKey(T, last.arg.s)
        /\ value2member(T.members, AliasTarget(T, last.arg.s)) # 0) =>
        /\ last.out = Return(PyMember(value2member(T.members, AliasTarget(T, last.arg.s))))
        /\ "map" \notin last.used

\* an alias hit whose input also spells the name or the value of a member
\* other than the alias target
C2_Witness ==
    /\ OnT({"from_fuzzy_string"}) /\ HitsAliasKey(T, last.arg.s)
    /\ \E j, k \in 1..Len(T.members) :
          /\ j # k
          /\ T.members[j].value = AliasTarget(T, last.arg.s)
          /\ lower(last.arg.s) \in Keys(T, k)
          /\ last.out = Return(PyMember(j))

\* C3: for every declared alias (k -> v) whose target v is a member value,
\* k written in any letter case resolves to the member whose value is v.
C3_EveryAliasResolves ==
    OnT(FuzzyOps) =>
        \A key \in DOMAIN T.aliases :
            (last.arg.s \in CaseVariants(key) /\ value2member(T.members, T.aliases[key]) # 0)
                => /\ last.out.k = "return"
                   /\ IsMember(last.out.v)
                   /\ T.members[last.out.v.i].value = T.aliases[key]

\* an alias key written in upper case resolved on an integer enum type
C3_Witness ==
    /\ OnT({"from_fuzzy_int_string"})
    /\ \E key \in DOMAIN T.aliases :
          /\ last.arg.s = [k \in 1..Len(key) |-> UpperChar(key[k])]
          /\ last.arg.s # key
          /\ last.out.k = "return"
          /\ T.members[last.out.v.i].value = T.aliases[key]

\* C4: from_fuzzy_string and from_fuzzy_int_string fail with the 'Input
\* string too long' error for every input longer than 1024 characters,
\* before the alias table or the lookup map is consulted.
C4_InputGuard ==
    (last.op \in FuzzyOps /\ Len(last.arg.s) > MAX_INPUT_LENGTH) =>
        /\ last.out.k = "raise" /\ last.out.exc = "ValueError" /\ last.out.msg = "TooLong"
        /\ last.used = {}

\* C5: get_or_none on an enum type returns a member or None and never
\* raises, for every input.  Stated for the types that have members.
C5_GetOrNoneNeverRaises ==
    (OnT({"get_or_none"}) /\ T.members # <<>>) =>
        /\ last.out.k = "return"
        /\ IsMember(last.out.v) \/ last.out.v = PyNone

\* C6: on an optional enum type, None given to the constructor or to
\* get_or_none resolves to the NONE member without consulting the alias
\* table or the lookup map; a string that matches no alias, name or
\* normalized value never becomes NONE: the constructor raises ValueError
\* and get_or_none returns None.
C6_OnlyAbsenceIsNONE ==
    (OnT({"construct", "get_or_none"}) /\ decl.kind = "OptionalBaseStrEnum") =>
        /\ last.arg = PyNone =>
              /\ last.out = Return(PyMember(T.names[NONE]))
              /\ last.used = {}
        /\ (IsStr(last.arg) /\ MatchesNothing(T, last.arg.s)) =>
              /\ last.op = "construct" => Raised(last.out, "ValueError")
              /\ last.op = "get_or_none" => last.out = Return(PyNone)

\* the constructor of an optional type with an alias table returned NONE for None
C6_Witness ==
    /\ OnT({"construct"}) /\ decl.kind = "OptionalBaseStrEnum"
    /\ decl.aliases # NoAliases
    /\ last.arg = PyNone
    /\ last.out = Return(PyMember(T.names[NONE]))

\* C7: the class statement of an optional enum type without a member named
\* NONE raises TypeError, and every optional enum type that is defined has
\* exactly one sentinel member.
C7_SentinelRequired ==
    (decl.kind = "OptionalBaseStrEnum" /\ status # "none") =>
        /\ (\A j \in 1..Len(decl.body) : decl.body[j].name # NONE) => status = "TypeError"
        /\ status = "defined" =>
              Cardinality({k \in 1..Len(T.members) :
                              NONE \in DOMAIN T.names /\ T.names[NONE] = k}) = 1

\* a class statement with members but without NONE raised TypeError
C7_Witness ==
    /\ decl.kind = "OptionalBaseStrEnum"
    /\ status = "TypeError"
    /\ decl.body # <<>>

\* C8: a class statement in which two members share a value is rejected,
\* so in every defined enum type the values are pairwise distinct and
\* every declared name is its own member.
C8_ValuesUnique ==
    status = "defined" =>
        /\ \A j, k \in 1..Len(decl.body) :
              j # k => decl.body[j].value # decl.body[k].value
        /\ Len(T.members) = Len(decl.body)

\* C9: an input whose lowercase form is an alias key whose target is no
\* member value fails with the error that names the alias target; it
\* returns no member and raises no other error.  Stated for the types that
\* have members.
C9_BrokenAliasFails ==
    (OnT(FuzzyOps) /\ T.members # <<>> /\ HitsAliasKey(T, last.arg.s)
        /\ value2member(T.members, AliasTarget(T, last.arg.s)) = 0) =>
        last.out = AliasTargetError(AliasTarget(T, last.arg.s))

\* C10: when several threads make their first lookup on an enum type at the
\* same time, the lookup map of the type is built and stored exactly once.
C10_StoredOnce == stores <= 1

\* the string is the lowercase name of no member of the type
HitsNoName(cls, value_str) ==
    \A k \in 1..Len(cls.members) : lower(value_str) # lower(cls.members[k].name)

\* the member of the type whose value is the integer the string parses as;
\* 0 if the string is no integer or no member has that value
ParsedMember(cls, value_str) ==
    IF int(value_str).ok
    THEN value2member(cls.members, PyInt(int(value_str).n))
    ELSE 0

\* C11: on an integer enum type, for a string that is no alias key and no
\* lowercase member name, from_fuzzy_int_string returns the member whose
\* value is int(s) when s parses as an integer equal to a member value, and
\* otherwise fails with the "'<s>' is not a valid <Type>" error, whether s
\* is numeric or not.
C11_NumericFallback ==
    (OnT({"from_fuzzy_int_string"}) /\ decl.kind = "BaseIntEnum"
        /\ ~HitsAliasKey(T, last.arg.s) /\ HitsNoName(T, last.arg.s)) =>
        IF ParsedMember(T, last.arg.s) # 0
        THEN last.out = Return(PyMember(ParsedMember(T, last.arg.s)))
        ELSE last.out = InvalidValueError(last.arg.s)

\* a string that parses as an integer no member has the value of got the
\* same error as an unmatched non-numeric string, on a type with members
C11_Witness ==
    /\ OnT({"from_fuzzy_int_string"}) /\ decl.kind = "BaseIntEnum"
    /\ T.members # <<>>
    /\ ~HitsAliasKey(T, last.arg.s) /\ HitsNoName(T, last.arg.s)
    /\ int(last.arg.s).ok
    /\ ParsedMember(T, last.arg.s) = 0
    /\ last.out = InvalidValueError(last.arg.s)

\* the string without the separators it starts with
RECURSIVE DropSeparators(_)
DropSeparators(s) ==
    IF s # <<>> /\ Head(s) \in Separators THEN DropSeparators(Tail(s)) ELSE s

\* the string with every run of separators replaced by a single "_"
RECURSIVE CollapseRuns(_)
CollapseRuns(s) ==
    IF s = <<>> THEN <<>>
    ELSE IF Head(s) \in Separators THEN <<"_">> \o CollapseRuns(DropSeparators(s))
    ELSE <<Head(s)>> \o CollapseRuns(Tail(s))

\* the normalized key as the claim describes it
RunKey(s) == CollapseRuns(lower(s))

\* no two members of the type share a name or a key of that kind
RunUnambiguous(cls) ==
    \A j, k \in 1..Len(cls.members) :
        j # k => {RunKey(cls.members[j].value.s), lower(cls.members[j].name)}
                    \cap {RunKey(cls.members[k].value.s), lower(cls.members[k].name)} = {}

\* C12: normalization lowercases and replaces every run of '-', ' ' or '_'
\* by a single '_', for member values and for inputs alike, so an input
\* that differs from a member value only in letter case, in the separator
\* characters and in the length of its separator runs resolves to that
\* member.  Stated for inputs that are no alias key, on types whose members
\* share no key.
C12_RunsCollapse ==
    (OnT({"from_fuzzy_string"}) /\ decl.kind \in StrKinds
        /\ RunUnambiguous(T) /\ ~HitsAliasKey(T, last.arg.s)) =>
        \A k \in 1..Len(T.members) :
            RunKey(last.arg.s) = RunKey(T.members[k].value.s)
                => last.out = Return(PyMember(k))

\* two outcomes are the same member returned, or are both failures
SameOutcome(a, b) ==
    IF a.k = "return" THEN b = a ELSE b.k = "raise"

\* C13: on a string enum type with any alias table, two input strings that
\* have the same normalized key have the same outcome in from_fuzzy_string:
\* the call that has just returned, and the call on any other string with
\* the key of its input.
C13_SameKeySameOutcome ==
    (OnT({"from_fuzzy_string"}) /\ decl.kind \in StrKinds) =>
        \A t \in ShortStrings(T) :
            RunKey(t) = RunKey(last.arg.s) =>
                SameOutcome(last.out, from_fuzzy_string(T, t, fuzzy_lookup_map, {}).out)

\* sanitize_filename has returned a filename
Sanitized == sanitized # NotSanitized /\ sanitized.out.k = "return"

\* C14: sanitize_filename never returns a Windows reserved device name: for
\* every filename and every replacement string, the empty one included,
\* the part of the result before its first dot is, compared without regard
\* to letter case, none of CON, PRN, AUX, NUL, COM1-COM9, LPT1-LPT9.
C14_NeverReserved ==
    Sanitized => upper(first_part(sanitized.out.v.s)) \notin RESERVED

\* the replacement strings that hold a path separator
UnsafeReplacement(replacement) ==
    \E k \in 1..Len(replacement) : replacement[k] \in {"/", "\\"}

\* C15: sanitize_filename raises ValueError 'Replacement string contains
\* path separators' for every replacement string that holds '/' or '\',
\* whatever the filename, so no filename it returns holds a path separator.
C15_UnsafeReplacementRejected ==
    sanitized # NotSanitized =>
        /\ UnsafeReplacement(sanitized.replacement) =>
              /\ Raised(sanitized.out, "ValueError")
              /\ sanitized.out.msg = "UnsafeReplacement"
        /\ sanitized.out.k = "return" =>
              \A k \in 1..Len(sanitized.out.v.s) : sanitized.out.v.s[k] \notin {"/", "\\"}

\* the lookup map a resolution call on the class consults in this state
ConsultedMap(cls) ==
    IF cls.kind = "BaseIntEnum"
    THEN _get_name_lookup_map(cls, name_lookup_map).map
    ELSE _get_fuzzy_map(cls, fuzzy_lookup_map).map

\* the lookup map of the members of the class, in declaration order
OwnMap(cls) ==
    IF cls.kind = "BaseIntEnum"
    THEN name_build(cls.members, Len(cls.members))
    ELSE fuzzy_build(cls.members, Len(cls.members))

\* C16: whatever resolution calls were made on the enum type or on the
\* base type it inherits from, before or after the type was defined, the
\* lookup map the type's resolution consults is the map built from its own
\* members in declaration order.
C16_MapIsOwn ==
    status = "defined" => ConsultedMap(T) = OwnMap(T)

\* C17: in every interleaving of concurrent lookups on one enum type, the
\* map stored on the type, if any, holds the entries of every member, and
\* so does every map a lookup probes: a map is filled privately and
\* stored in one step.
C17_NoPartialCache ==
    /\ MapAttr["T"].has => MapAttr["T"].map = OwnMap(T)
    /\ \A t \in Threads : thread[t].pc = "probe" => thread[t].map = OwnMap(T)

\* a lookup is about to probe the complete map while another thread's
\* private map holds the entries of the first of two members only
C17_Witness ==
    \E t, u \in Threads :
        /\ Len(T.members) = 2
        /\ thread[t].pc = "loop" /\ thread[t].idx = 1
        /\ thread[t].lookup_map # OwnMap(T)
        /\ thread[u].pc = "probe" /\ thread[u].map = OwnMap(T)

(***************************************************************************)
(* The pipeline without step 2: the alias check, then the probe of the     *)
(* normalized input only.                                                  *)
(***************************************************************************)
\* step 3 alone: value_lower.replace("-", "_").replace(" ", "_") is probed
normalized_key(value_str) == replace(replace(lower(value_str), "-", "_"), " ", "_")

normalized_probe(value_str, fuzzy_map) ==
    IF normalized_key(value_str) \in DOMAIN fuzzy_map
    THEN Return(PyMember(fuzzy_map[normalized_key(value_str)]))
    ELSE InvalidValueError(value_str)

RECURSIVE resolve_without_raw(_, _, _, _)
RECURSIVE construct_without_raw(_, _, _, _)

resolve_without_raw(cls, value_str, attr, seen) ==
    IF HitsAliasKey(cls, value_str)
    THEN IF value2member(cls.members, AliasTarget(cls, value_str)) # 0
         THEN Return(PyMember(value2member(cls.members, AliasTarget(cls, value_str))))
         ELSE IF lower(value_str) \in seen THEN RecursionError
         ELSE LET out == construct_without_raw(cls, AliasTarget(cls, value_str), attr,
                                               seen \cup {lower(value_str)})
              IN  IF Raised(out, "ValueError")
                  THEN AliasTargetError(AliasTarget(cls, value_str))
                  ELSE out
    ELSE normalized_probe(value_str, _get_fuzzy_map(cls, attr).map)

\* cls(value) for a value that is no member value, with that pipeline in
\* the _missing_ hook of an optional type
construct_without_raw(cls, value, attr, seen) ==
    IF cls.members = <<>> THEN Raise("TypeError", "NoMembers", PyNone)
    ELSE IF cls.kind = "OptionalBaseStrEnum" /\ IsStr(value)
    THEN LET out == resolve_without_raw(cls, value.s, attr, seen)
         IN  IF Raised(out, "ValueError") THEN NotValidError(value) ELSE out
    ELSE NotValidError(value)

\* C18: on a string enum type, for every input string, from_fuzzy_string
\* returns the member, or raises the error, that the pipeline without the
\* raw lowercase probe of step 2 gives.
C18_RawProbeIsOptimization ==
    (OnT({"from_fuzzy_string"}) /\ decl.kind \in StrKinds) =>
        last.out = resolve_without_raw(T, last.arg.s, fuzzy_lookup_map, {})

\* from_fuzzy_string returned a member for an input that holds no separator
\* and is the lowercase name of a member whose normalized value is another
\* string: a hit of the raw probe of step 2
C18_Witness ==
    /\ OnT({"from_fuzzy_string"}) /\ decl.kind \in StrKinds
    /\ ~HitsAliasKey(T, last.arg.s)
    /\ last.out.k = "return"
    /\ lower(last.arg.s) = normalize(last.arg.s)
    /\ lower(last.arg.s) = lower(T.members[last.out.v.i].name)
    /\ lower(last.arg.s) # normalize(T.members[last.out.v.i].value.s)

\* C19: on an optional enum type, with any alias table, the constructor,
\* from_fuzzy_string and get_or_none finish with a member, None or a
\* ValueError: _missing_ and from_fuzzy_string never call each other
\* without end.
C19_ResolutionTerminates ==
    (OnT({"construct", "from_fuzzy_string", "get_or_none"})
        /\ decl.kind = "OptionalBaseStrEnum") =>
        \/ last.out.k = "return" /\ (IsMember(last.out.v) \/ last.out.v = PyNone)
        \/ Raised(last.out, "ValueError")

\* the outcome of the raising lookup of the type on the string, in this state
FuzzyOutcome(cls, value_str) ==
    IF cls.kind = "BaseIntEnum"
    THEN from_fuzzy_int_string(cls, value_str, name_lookup_map).out
    ELSE from_fuzzy_string(cls, value_str, fuzzy_lookup_map, {}).out

\* C20: for every string, get_or_none returns the member the raising lookup
\* (from_fuzzy_string, from_fuzzy_int_string on an integer enum type)
\* returns when that succeeds, and None when it raises.  Stated for inputs
\* that are no alias key, on types whose members share no key.
C20_SafeAgreesWithRaising ==
    (OnT({"get_or_none"}) /\ IsStr(last.arg)
        /\ ~HitsAliasKey(T, last.arg.s)
        /\ (decl.kind \in StrKinds => Unambiguous(T))) =>
        IF FuzzyOutcome(T, last.arg.s).k = "return"
        THEN last.out = FuzzyOutcome(T, last.arg.s)
        ELSE last.out = Return(PyNone)

====
